---------------------------- MODULE Spec2Model ----------------------------
(***************************************************************************)
(* Model of the AmazonManager repository.                                  *)
(*                                                                         *)
(*  Part I  - home/management/commands/setup_homepage.py: Command.handle   *)
(*            acting on the page table and the site table.  Specification  *)
(*            Spec.                                                        *)
(*  Part II - tests/conftest.py: the driver fixture, the diagnostics       *)
(*            helpers and hooks, run under the test runner's setup / call  *)
(*            / teardown protocol.  Specification SpecHarness.             *)
(***************************************************************************)
EXTENDS Integers, Sequences, FiniteSets, TLC

VARIABLES
    \* Part I
    pages,      \* the page table: set of page records
    sites,      \* the site table: set of site records
    stdout,     \* status lines written by the latest invocation of handle
    raised,     \* exception that escaped the latest invocation ("none" if none)
    runs,       \* number of invocations of handle so far
    \* Part II
    browser_name,     \* --browser, a string as a sequence of characters
    headless_mode,    \* --headless
    pc,               \* where the runner is in the current test's protocol
    cur,              \* the current test: [id, uses_driver]
    tests_run,        \* tests finished so far
    sessions,         \* every browser session launched so far, by handle
    driver_instance,  \* the driver fixture's local: 0 (None) or a handle
    driver_yielded,   \* the driver fixture is suspended at its yield
    auto_yielded,     \* auto_screenshot_on_steps is suspended at its yield
    report,           \* the current test's setup / call / teardown reports
    printed,          \* what the helpers and hooks printed in this test
    files,            \* the files under test_screenshots
    clock,            \* wall clock, in seconds
    internal_error,   \* an exception escaped a hook of the runner
    attempts,         \* the captures attempted for the current test, in order
    writes,           \* number of files saved under test_screenshots so far
    \* Part III
    test,             \* the scenario test whose body runs ("none" if none)
    ip,               \* index of the next step of the test body
    elapsed,          \* time units the current bounded wait has polled for
    page,             \* the page in the browser session
    measured,         \* the value the body read last from the page
    nav_waited,       \* wait_for_page_load has returned since the last driver.get
    synced,           \* an explicit wait has returned since the last click
    failure_message   \* what the exception that ended the body carries

cmdVars == <<pages, sites, stdout, raised, runs>>

harnessVars == <<browser_name, headless_mode, pc, cur, tests_run, sessions,
                 driver_instance, driver_yielded, auto_yielded, report,
                 printed, files, clock, internal_error, attempts, writes>>

scenVars == <<test, ip, elapsed, page, measured, nav_waited, synced,
              failure_message>>

vars == <<pages, sites, stdout, raised, runs,
          browser_name, headless_mode, pc, cur, tests_run, sessions,
          driver_instance, driver_yielded, auto_yielded, report,
          printed, files, clock, internal_error, attempts, writes,
          test, ip, elapsed, page, measured, nav_waited, synced,
          failure_message>>

(***************************************************************************)
(* Bounds                                                                  *)
(***************************************************************************)
\* pages other than the tree root that the page table may hold initially
MaxInitPages == 2
\* invocations of handle in one behaviour
MaxRuns == 3
\* tests the runner executes in one behaviour
MaxTests == 2
\* seconds the wall clock may advance in one behaviour
MaxClock == 1
\* captures a test body makes at most
MaxCaptures == 3

(***************************************************************************)
(* Part I: the page table, the site table and Command.handle               *)
(***************************************************************************)
\* port of the site handle creates
CreatedPort == 8000
Slugs == {"home", "about"}
Kinds == {"Page", "HomePage"}

PageRec(i, par, d, s, k) ==
    [id |-> i, parent |-> par, depth |-> d, slug |-> s, kind |-> k]

\* the node the framework's migrations create at depth 1
RootPage == PageRec(1, 0, 1, "root", "Page")

SiteRec(i, h, p, n, r, d) ==
    [id |-> i, hostname |-> h, port |-> p, site_name |-> n,
     root_page |-> r, is_default_site |-> d]

Styled(style, text) == [style |-> style, text |-> text]

MaxOf(S) == CHOOSE m \in S : \A x \in S : x <= m
NextId(T) == IF T = {} THEN 1 ELSE MaxOf({r.id : r \in T}) + 1

\* Page._slug_is_available, as add_child's save() validates it: no child of
\* the parent carries the slug yet
SlugIsAvailable(P, parent, slug) ==
    \A p \in P : p.parent = parent.id => p.slug # slug

\* Page.objects.get(depth=1): the set the query matches
Roots(P) == {p \in P : p.depth = 1}

\* HomePage.objects.filter(slug='home')
HomePagesNamedHome(P) == {p \in P : p.kind = "HomePage" /\ p.slug = "home"}

\* Site.objects.filter(is_default_site=True)
DefaultSites(S) == {s \in S : s.is_default_site}

\* root.add_child(instance=home_page) without the slug validation
add_child_unvalidated(P, root, slug, kind) ==
    [raised |-> "none",
     id     |-> NextId(P),
     pages  |-> P \cup {PageRec(NextId(P), root.id, root.depth + 1, slug, kind)}]

\* root.add_child(instance=home_page): the new node is saved as a child of
\* root; save() validates the instance first and raises ValidationError when
\* the slug is already in use among root's children
add_child(P, root, slug, kind) ==
    IF SlugIsAvailable(P, root, slug)
    THEN [raised |-> "none",
          id     |-> NextId(P),
          pages  |-> P \cup {PageRec(NextId(P), root.id, root.depth + 1,
                                     slug, kind)}]
    ELSE [raised |-> "ValidationError", id |-> 0, pages |-> P]

\* lines 19-35: look the homepage up by type and slug, or create it
EnsureHomePage(P, root) ==
    LET homes == HomePagesNamedHome(P) IN
    IF homes # {}
    THEN IF Cardinality(homes) > 1
         THEN [raised |-> "MultipleObjectsReturned", pages |-> P,
               home_page |-> 0, out |-> <<>>]
         ELSE [raised |-> "none", pages |-> P,
               home_page |-> (CHOOSE h \in homes : TRUE).id,
               out |-> <<Styled("WARNING", "HomePage already exists")>>]
    ELSE LET r == add_child(P, root, "home", "HomePage") IN
         IF r.raised # "none"
         THEN [raised |-> r.raised, pages |-> r.pages,
               home_page |-> 0, out |-> <<>>]
         ELSE [raised |-> "none", pages |-> r.pages, home_page |-> r.id,
               out |-> <<Styled("SUCCESS", "HomePage created successfully")>>]

\* a variant of EnsureSite that leaves an existing default site as it is
EnsureSite_keep(S, home_page) ==
    IF DefaultSites(S) = {}
    THEN [raised |-> "none",
          sites  |-> S \cup {SiteRec(NextId(S), "localhost", CreatedPort,
                                     "Amazon Manager", home_page, TRUE)},
          out    |-> <<Styled("SUCCESS", "Site created successfully")>>]
    ELSE [raised |-> "none", sites |-> S,
          out    |-> <<Styled("SUCCESS",
                              "Site updated to use HomePage as root")>>]

\* lines 37-55: point the default site at the homepage, or create the site.
\* The site table keeps (hostname, port) unique, so create raises
\* IntegrityError when another site already holds localhost:8000.
EnsureSite(S, home_page) ==
    LET defaults == DefaultSites(S) IN
    IF defaults = {}
    THEN IF \E s \in S : s.hostname = "localhost" /\ s.port = CreatedPort
         THEN [raised |-> "IntegrityError", sites |-> S, out |-> <<>>]
         ELSE [raised |-> "none",
               sites  |-> S \cup {SiteRec(NextId(S), "localhost", CreatedPort,
                                          "Amazon Manager", home_page, TRUE)},
               out    |-> <<Styled("SUCCESS", "Site created successfully")>>]
    ELSE IF Cardinality(defaults) > 1
    THEN [raised |-> "MultipleObjectsReturned", sites |-> S, out |-> <<>>]
    ELSE LET site == CHOOSE s \in defaults : TRUE IN
         [raised |-> "none",
          sites  |-> (S \ {site}) \cup {[site EXCEPT !.root_page = home_page]},
          out    |-> <<Styled("SUCCESS",
                              "Site updated to use HomePage as root")>>]

\* a variant of the missing-root branch that creates the root and goes on
NoRootResult_creating(P, S) ==
    LET h == EnsureHomePage({RootPage}, RootPage)
        s == EnsureSite(S, h.home_page) IN
    [pages |-> h.pages, sites |-> s.sites, raised |-> "none",
     out |-> h.out \o s.out]

\* lines 11-17: Page.DoesNotExist is reported and handle returns
NoRootResult(P, S) ==
    [pages |-> P, sites |-> S, raised |-> "none",
     out |-> <<Styled("ERROR", "Root page not found. Run migrations first.")>>]

\* Command.handle as a function of the two tables
handle(P, S) ==
    IF Roots(P) = {}
    THEN NoRootResult(P, S)
    ELSE IF Cardinality(Roots(P)) > 1
    THEN [pages |-> P, sites |-> S, raised |-> "MultipleObjectsReturned",
          out |-> <<>>]
    ELSE LET root == CHOOSE p \in Roots(P) : TRUE
             h    == EnsureHomePage(P, root) IN
         IF h.raised # "none"
         THEN [pages |-> h.pages, sites |-> S, raised |-> h.raised,
               out |-> h.out]
         ELSE LET s == EnsureSite(S, h.home_page) IN
              IF s.raised # "none"
              THEN [pages |-> h.pages, sites |-> s.sites,
                    raised |-> s.raised, out |-> h.out \o s.out]
              ELSE [pages |-> h.pages, sites |-> s.sites, raised |-> "none",
                    out |-> h.out \o s.out \o
                        <<Styled("SUCCESS",
                                 "Site setup completed successfully")>>]

(***************************************************************************)
(* Initial tables.  The page table is empty (migrations not run) or a tree *)
(* with one root whose siblings have distinct slugs; every site points at  *)
(* an existing page, (hostname, port) is unique and at most one site is    *)
(* flagged default.                                                        *)
(***************************************************************************)
RECURSIVE Trees(_)
Trees(n) ==
    IF n = 0 THEN {{RootPage}}
    ELSE LET prev == Trees(n - 1)
             full == {T \in prev : Cardinality(T) = n}
         IN prev \cup UNION {
              { T \cup {PageRec(n + 1, par.id, par.depth + 1, s, k)} :
                    <<par, s, k>> \in {x \in T \X Slugs \X Kinds :
                                          SlugIsAvailable(T, x[1], x[2])} }
              : T \in full }

InitPages == {{}} \cup Trees(MaxInitPages)

InitSites(P) ==
    IF P = {} THEN {{}}
    ELSE LET ids == {p.id : p \in P}
             defaults == {{}} \cup
                 {{SiteRec(1, "localhost", 80, "", r, TRUE)} :
                      r \in ids}
             others == {{}} \cup
                 {{SiteRec(2, h, CreatedPort, "", r, FALSE)} :
                      <<h, r>> \in {"localhost", "example.com"} \X ids}
         IN {d \cup o : <<d, o>> \in defaults \X others}

CmdInit ==
    /\ pages \in InitPages
    /\ sites \in InitSites(pages)
    /\ stdout = <<>>
    /\ raised = "none"
    /\ runs = 0

\* one invocation of the management command
Handle ==
    /\ runs < MaxRuns
    /\ LET r == handle(pages, sites) IN
         /\ pages' = r.pages
         /\ sites' = r.sites
         /\ stdout' = r.out
         /\ raised' = r.raised
    /\ runs' = runs + 1
    /\ UNCHANGED <<harnessVars, scenVars>>

(***************************************************************************)
(* Claims about Command.handle (specification Spec)                        *)
(***************************************************************************)
HasRoot == Roots(pages) # {}
HandleStep == runs' = runs + 1
ErrorLine == Styled("ERROR", "Root page not found. Run migrations first.")
CreatedLine == Styled("SUCCESS", "HomePage created successfully")
ExistsLine == Styled("WARNING", "HomePage already exists")
HomeIds(P) == {p.id : p \in HomePagesNamedHome(P)}

\* C1 (as stated): from any tables with a tree root, every run of handle
\* leaves exactly one homepage record and exactly one default site whose
\* root page is that record; the first run creates the record and reports
\* success, every later run reports that it exists and creates nothing.
C1_Idempotent ==
    [][(HasRoot /\ HandleStep) =>
          /\ Cardinality(HomePagesNamedHome(pages')) = 1
          /\ Cardinality(DefaultSites(sites')) = 1
          /\ \A s \in DefaultSites(sites') : s.root_page \in HomeIds(pages')
          /\ (runs = 0 => /\ Len(stdout') >= 1
                          /\ stdout'[1] = CreatedLine
                          /\ Cardinality(pages') = Cardinality(pages) + 1)
          /\ (runs >= 1 => /\ Len(stdout') >= 1
                           /\ stdout'[1] = ExistsLine
                           /\ pages' = pages)]_vars

\* C2: without a tree root handle writes the error line and returns; the
\* page table and the site table are left as they were.
C2_NoRootNoChange ==
    [][(~HasRoot /\ HandleStep) =>
          /\ pages' = pages
          /\ sites' = sites
          /\ raised' = "none"
          /\ stdout' = <<ErrorLine>>]_vars

C2_Witness == ~HasRoot /\ runs >= 1 /\ stdout = <<ErrorLine>>

\* C3 (as stated, read for tables that have a tree root): after every
\* invocation of handle a default site exists and its root page is the
\* homepage record.
C3_SiteAlwaysAtHomepage ==
    (HasRoot /\ runs >= 1) =>
        \E s \in DefaultSites(sites) : s.root_page \in HomeIds(pages)

\* C4 (as stated): after handle completes with a tree root present, a
\* homepage record exists as a child of the depth-1 root and the default site
\* points at that record, whatever HomePage records with slug 'home' existed
\* elsewhere in the tree before the call.
C4_HomepageChildOfRoot ==
    [][(HasRoot /\ HandleStep /\ raised' = "none") =>
          \E h \in HomePagesNamedHome(pages') :
              /\ \E r \in Roots(pages') : h.parent = r.id
              /\ \E s \in DefaultSites(sites') : s.root_page = h.id]_vars

\* C4 (amended): after handle completes with a tree root present, the default
\* site points at a HomePage record with slug 'home'; that record is a new
\* child of the depth-1 root when no HomePage with slug 'home' existed in the
\* tree before the call, and otherwise it is the existing record, wherever
\* in the tree it is, and no page is created.
C4_HomepageCreatedOrReused ==
    [][(HasRoot /\ HandleStep /\ raised' = "none") =>
          \E h \in HomePagesNamedHome(pages') :
              /\ \A s \in DefaultSites(sites') : s.root_page = h.id
              /\ DefaultSites(sites') # {}
              /\ IF HomePagesNamedHome(pages) = {}
                 THEN /\ pages' = pages \cup {h}
                      /\ h \notin pages
                      /\ \E r \in Roots(pages) : h.parent = r.id
                 ELSE /\ pages' = pages
                      /\ HomePagesNamedHome(pages) = {h}]_vars

\* a HomePage with slug 'home' below a non-root page was reused
C4_Witness ==
    /\ runs >= 1 /\ raised = "none" /\ HasRoot
    /\ \E h \in HomePagesNamedHome(pages) :
          /\ h.depth > 2
          /\ \E s \in DefaultSites(sites) : s.root_page = h.id

\* C5: no two children of the same parent share a slug, after any sequence
\* of invocations of handle.
C5_SlugUniqueAmongSiblings ==
    \A p, q \in pages :
        (p.id # q.id /\ p.parent = q.parent) => p.slug # q.slug

\* handle has run on a tree whose root has a non-homepage child 'home'
C5_Witness ==
    /\ runs >= 1
    /\ raised = "ValidationError"
    /\ \E p \in pages : p.depth = 2 /\ p.slug = "home" /\ p.kind = "Page"

\* C6 (as stated): with a tree root present, exactly one site is flagged
\* default after any sequence of invocations of handle.
C6_ExactlyOneDefaultSite ==
    (HasRoot /\ runs >= 1) => Cardinality(DefaultSites(sites)) = 1

(***************************************************************************)
(* Part II: tests/conftest.py under the test runner                        *)
(***************************************************************************)
\* driver_instance.implicitly_wait(10)
ImplicitWait == 10

UpperAlpha == <<"A","B","C","D","E","F","G","H","I","J","K","L","M",
                "N","O","P","Q","R","S","T","U","V","W","X","Y","Z">>
LowerAlpha == <<"a","b","c","d","e","f","g","h","i","j","k","l","m",
                "n","o","p","q","r","s","t","u","v","w","x","y","z">>

\* str.lower(): every upper-case letter becomes its lower-case letter, every
\* other character stays
LowerChar(c) ==
    IF \E i \in DOMAIN UpperAlpha : UpperAlpha[i] = c
    THEN LowerAlpha[CHOOSE i \in DOMAIN UpperAlpha : UpperAlpha[i] = c]
    ELSE c
Lower(str) == [i \in DOMAIN str |-> LowerChar(str[i])]

chrome == <<"c","h","r","o","m","e">>
firefox == <<"f","i","r","e","f","o","x">>
headless_chrome == <<"h","e","a","d","l","e","s","s","-","c","h","r","o","m","e">>

\* values of --browser the runner is started with
BrowserNames ==
    { chrome, firefox, headless_chrome,
      <<"C","h","r","o","m","e">>,
      <<"s","a","f","a","r","i">> }

\* the command lines the runner is started with: --browser VALUE or no
\* --browser, --headless or no --headless
CommandLines ==
    [browser_given : BOOLEAN, browser : BrowserNames, headless_flag : BOOLEAN]

\* lines 18-23 and 33-35: the fixture browser_name,
\* request.config.getoption("--browser") with default "chrome"
getoption_browser(args) ==
    IF args.browser_given THEN args.browser ELSE chrome

\* lines 24-29 and 39-41: the fixture headless_mode,
\* request.config.getoption("--headless"), a store_true flag with default
\* False
getoption_headless(args) == args.headless_flag

DriverEnv == {"ok", "launch_fails", "implicitly_wait_fails",
              "maximize_window_fails"}
ShotEnv == {"ok", "makedirs_fails", "save_fails"}
ReportEnv == {"ok", "makedirs_fails", "save_fails", "source_fails"}
BodyOutcomes == {"passed", "AssertionError", "TimeoutException"}

NoTest == [id |-> 0, uses_driver |-> FALSE]
NoReport == [setup |-> "none", call |-> "none", teardown |-> "none"]

FileName(name, ts, ext) == [name |-> name, ts |-> ts, ext |-> ext]

\* a variant of SelectBrowser that falls back to Chrome for an unknown name
SelectBrowser_fallback(name, headless) ==
    IF Lower(name) = firefox
    THEN [raised |-> "none", browser |-> "Firefox", headless |-> headless,
          window |-> "default"]
    ELSE [raised |-> "none", browser |-> "Chrome",
          headless |-> (headless \/ Lower(name) = headless_chrome),
          window |-> "1920,1080"]

\* a variant of line 62 that looks at the --headless flag alone
ChromeHeadless_flag_only(name, headless) == headless

\* line 62: Chrome gets --headless=new
ChromeHeadless(name, headless) == headless \/ Lower(name) = headless_chrome

\* lines 53-76: the browser and options the --browser value selects
SelectBrowser(name, headless) ==
    IF Lower(name) = chrome \/ Lower(name) = headless_chrome
    THEN [raised |-> "none", browser |-> "Chrome",
          headless |-> ChromeHeadless(name, headless),
          window |-> "1920,1080"]
    ELSE IF Lower(name) = firefox
    THEN [raised |-> "none", browser |-> "Firefox", headless |-> headless,
          window |-> "default"]
    ELSE [raised |-> "ValueError", browser |-> "none", headless |-> FALSE,
          window |-> "none"]

\* a variant of Launch that hands out the first session again once one exists
Launch_shared(S, sel, owner) ==
    IF S # <<>>
    THEN [handle |-> 1, sessions |-> S]
    ELSE [handle   |-> 1,
          sessions |-> <<[owner |-> owner, alive |-> TRUE,
                          browser |-> sel.browser, headless |-> sel.headless,
                          window |-> sel.window, implicit_wait |-> 0,
                          quits |-> 0, users |-> {}]>>]

\* webdriver.Chrome(options=options) / webdriver.Firefox(options=options):
\* a new session, owned by the test the fixture is set up for
Launch(S, sel, owner) ==
    [handle   |-> Len(S) + 1,
     sessions |-> Append(S, [owner |-> owner, alive |-> TRUE,
                             browser |-> sel.browser,
                             headless |-> sel.headless,
                             window |-> sel.window,
                             implicit_wait |-> 0, quits |-> 0,
                             users |-> {}])]

\* driver_instance.quit(): the session ends
quit(S, d) == [S EXCEPT ![d].alive = FALSE, ![d].quits = @ + 1]

\* a variant of the finally clause that never quits
driver_finally_leak(S, d) == S

\* lines 86-88: the finally clause of the driver fixture
driver_finally(S, d) == IF d # 0 THEN quit(S, d) ELSE S

\* a variant of the driver fixture whose finally clause calls quit without
\* the test of line 87: after a failed launch the call on None raises
\* AttributeError, which replaces the launch failure
driver_setup_unguarded_quit(S, name, headless, env, owner) ==
    LET sel == SelectBrowser(name, headless) IN
    IF sel.raised # "none"
    THEN [sessions |-> S, driver_instance |-> 0,
          yielded |-> FALSE, raised |-> sel.raised]
    ELSE IF env = "launch_fails"
    THEN [sessions |-> S, driver_instance |-> 0,
          yielded |-> FALSE, raised |-> "AttributeError"]
    ELSE LET l == Launch(S, sel, owner)
             d == l.handle
             waited == [l.sessions EXCEPT ![d].implicit_wait = ImplicitWait]
             maximized == [waited EXCEPT ![d].window = "maximized"]
         IN IF env = "implicitly_wait_fails"
            THEN [sessions |-> quit(l.sessions, d),
                  driver_instance |-> d, yielded |-> FALSE,
                  raised |-> "WebDriverException"]
            ELSE IF env = "maximize_window_fails"
            THEN [sessions |-> quit(waited, d),
                  driver_instance |-> d, yielded |-> FALSE,
                  raised |-> "WebDriverException"]
            ELSE [sessions |-> maximized, driver_instance |-> d,
                  yielded |-> TRUE, raised |-> "none"]

\* lines 50-84: the driver fixture up to its yield; when an exception is
\* raised before the yield the finally clause runs at once
driver_setup(S, name, headless, env, owner) ==
    LET sel == SelectBrowser(name, headless) IN
    IF sel.raised # "none"
    THEN [sessions |-> driver_finally(S, 0), driver_instance |-> 0,
          yielded |-> FALSE, raised |-> sel.raised]
    ELSE IF env = "launch_fails"
    THEN [sessions |-> driver_finally(S, 0), driver_instance |-> 0,
          yielded |-> FALSE, raised |-> "WebDriverException"]
    ELSE LET l == Launch(S, sel, owner)
             d == l.handle
             waited == [l.sessions EXCEPT ![d].implicit_wait = ImplicitWait]
             maximized == [waited EXCEPT ![d].window = "maximized"]
         IN IF env = "implicitly_wait_fails"
            THEN [sessions |-> driver_finally(l.sessions, d),
                  driver_instance |-> d, yielded |-> FALSE,
                  raised |-> "WebDriverException"]
            ELSE IF env = "maximize_window_fails"
            THEN [sessions |-> driver_finally(waited, d),
                  driver_instance |-> d, yielded |-> FALSE,
                  raised |-> "WebDriverException"]
            ELSE [sessions |-> maximized, driver_instance |-> d,
                  yielded |-> TRUE, raised |-> "none"]

\* lines 159-176: BaseSeleniumTest.take_screenshot.  os.makedirs runs before
\* the try; driver.save_screenshot runs inside it.  saved counts the files
\* the call wrote.
take_screenshot(F, S, d, name, ts, env) ==
    IF env = "makedirs_fails"
    THEN [raised |-> "OSError", files |-> F, printed |-> {}, saved |-> 0]
    ELSE IF env = "save_fails" \/ ~S[d].alive
    THEN [raised |-> "none", files |-> F,
          printed |-> {"Failed to take screenshot"}, saved |-> 0]
    ELSE [raised |-> "none", files |-> F \cup {FileName(name, ts, "png")},
          printed |-> {"Screenshot saved"}, saved |-> 1]

\* lines 178-193: BaseSeleniumTest.take_element_screenshot: the same path
\* scheme, element.screenshot inside the try
take_element_screenshot(F, S, d, name, ts, env) ==
    IF env = "makedirs_fails"
    THEN [raised |-> "OSError", files |-> F, printed |-> {}, saved |-> 0]
    ELSE IF env = "save_fails" \/ ~S[d].alive
    THEN [raised |-> "none", files |-> F,
          printed |-> {"Failed to take element screenshot"}, saved |-> 0]
    ELSE [raised |-> "none", files |-> F \cup {FileName(name, ts, "png")},
          printed |-> {"Element screenshot saved"}, saved |-> 1]

\* a variant of the hook that captures for every call report, failed or not
pytest_runtest_makereport_always(F, S, when, failed, has_driver, d, nodeid, ts, env) ==
    IF when = "call" /\ has_driver
    THEN IF env = "makedirs_fails"
         THEN [raised |-> "OSError", files |-> F, printed |-> {},
               saved |-> 0, attempted |-> <<"FAILED">>]
         ELSE IF env = "save_fails" \/ ~S[d].alive
         THEN [raised |-> "none", files |-> F,
               printed |-> {"Failed to capture failure screenshot"},
               saved |-> 0, attempted |-> <<"FAILED">>]
         ELSE IF env = "source_fails"
         THEN [raised |-> "none",
               files |-> F \cup {FileName(<<"FAILED", nodeid>>, ts, "png")},
               printed |-> {"Failure screenshot saved",
                            "Failed to capture failure screenshot"},
               saved |-> 1, attempted |-> <<"FAILED">>]
         ELSE [raised |-> "none",
               files |-> F \cup
                   {FileName(<<"FAILED", nodeid>>, ts, "png"),
                    FileName(<<"FAILED", nodeid>>, ts, "_source.html")},
               printed |-> {"Failure screenshot saved", "Page source saved"},
               saved |-> 2, attempted |-> <<"FAILED">>]
    ELSE [raised |-> "none", files |-> F, printed |-> {}, saved |-> 0,
          attempted |-> <<>>]

\* lines 207-239: pytest_runtest_makereport after the wrapped hooks have
\* produced the report rep.  os.makedirs runs before the try; the screenshot
\* and then the page source are written inside it.
pytest_runtest_makereport(F, S, when, failed, has_driver, d, nodeid, ts, env) ==
    IF when = "call" /\ failed /\ has_driver
    THEN IF env = "makedirs_fails"
         THEN [raised |-> "OSError", files |-> F, printed |-> {},
               saved |-> 0, attempted |-> <<"FAILED">>]
         ELSE IF env = "save_fails" \/ ~S[d].alive
         THEN [raised |-> "none", files |-> F,
               printed |-> {"Failed to capture failure screenshot"},
               saved |-> 0, attempted |-> <<"FAILED">>]
         ELSE IF env = "source_fails"
         THEN [raised |-> "none",
               files |-> F \cup {FileName(<<"FAILED", nodeid>>, ts, "png")},
               printed |-> {"Failure screenshot saved",
                            "Failed to capture failure screenshot"},
               saved |-> 1, attempted |-> <<"FAILED">>]
         ELSE [raised |-> "none",
               files |-> F \cup
                   {FileName(<<"FAILED", nodeid>>, ts, "png"),
                    FileName(<<"FAILED", nodeid>>, ts, "_source.html")},
               printed |-> {"Failure screenshot saved", "Page source saved"},
               saved |-> 2, attempted |-> <<"FAILED">>]
    ELSE [raised |-> "none", files |-> F, printed |-> {}, saved |-> 0,
          attempted |-> <<>>]

\* a variant of the autouse fixture that takes no capture after its yield
auto_screenshot_end_skipped(F, S, has_driver, d, test_name, ts, env) ==
    [raised |-> "none", files |-> F, printed |-> {}, saved |-> 0,
     attempted |-> <<>>]

\* lines 246-248 and 259-260: auto_screenshot_on_steps after its yield: the
\* END capture for a test with the driver fixture, nothing otherwise
auto_screenshot_end(F, S, has_driver, d, test_name, ts, env) ==
    IF has_driver
    THEN LET r == take_screenshot(F, S, d, <<"END", test_name>>, ts, env) IN
         [raised |-> r.raised, files |-> r.files, printed |-> r.printed,
          saved |-> r.saved, attempted |-> <<"END">>]
    ELSE [raised |-> "none", files |-> F, printed |-> {}, saved |-> 0,
          attempted |-> <<>>]

HarnessInit ==
    /\ \E args \in CommandLines :
          /\ browser_name = getoption_browser(args)
          /\ headless_mode = getoption_headless(args)
    /\ pc = "idle"
    /\ cur = NoTest
    /\ tests_run = 0
    /\ sessions = <<>>
    /\ driver_instance = 0
    /\ driver_yielded = FALSE
    /\ auto_yielded = FALSE
    /\ report = NoReport
    /\ printed = {}
    /\ files = {}
    /\ clock = 0
    /\ internal_error = FALSE
    /\ attempts = <<>>
    /\ writes = 0

\* the runner takes the next test and starts its setup phase
StartTest ==
    /\ pc = "idle"
    /\ tests_run < MaxTests
    /\ \E u \in BOOLEAN : cur' = [id |-> tests_run + 1, uses_driver |-> u]
    /\ pc' = "setup"
    /\ report' = NoReport
    /\ printed' = {}
    /\ attempts' = <<>>
    /\ driver_instance' = 0
    /\ UNCHANGED <<cmdVars, scenVars, browser_name, headless_mode, tests_run, sessions,
                   driver_yielded, auto_yielded, files, clock, internal_error,
                   writes>>

\* lines 246-247: auto_screenshot_on_steps of a test without the driver
\* fixture yields at once
AutoScreenshotSkip ==
    /\ pc = "setup"
    /\ ~cur.uses_driver
    /\ auto_yielded' = TRUE
    /\ report' = [report EXCEPT !.setup = "passed"]
    /\ pc' = "call"
    /\ UNCHANGED <<cmdVars, scenVars, browser_name, headless_mode, cur, tests_run, sessions,
                   driver_instance, driver_yielded, printed, files, clock,
                   internal_error, attempts, writes>>

\* line 250: auto_screenshot_on_steps asks for the driver fixture, which is
\* set up for this test (lines 44-88)
DriverFixtureSetup ==
    /\ pc = "setup"
    /\ cur.uses_driver
    /\ \E env \in DriverEnv :
         LET r == driver_setup(sessions, browser_name, headless_mode, env,
                               cur.id) IN
         /\ sessions' = r.sessions
         /\ driver_instance' = r.driver_instance
         /\ driver_yielded' = r.yielded
         /\ IF r.raised = "none"
            THEN /\ pc' = "start_shot"
                 /\ report' = report
            ELSE /\ pc' = "teardown"
                 /\ report' = [report EXCEPT !.setup = r.raised]
    /\ UNCHANGED <<cmdVars, scenVars, browser_name, headless_mode, cur, tests_run, auto_yielded,
                   printed, files, clock, internal_error, attempts, writes>>

\* lines 252-257: the START capture, then the fixture yields
AutoScreenshotStart ==
    /\ pc = "start_shot"
    /\ \E env \in ShotEnv :
         LET r == take_screenshot(files, sessions, driver_instance,
                                  <<"START", cur.id>>, clock, env) IN
         /\ files' = r.files
         /\ writes' = writes + r.saved
         /\ printed' = printed \cup r.printed
         /\ IF r.raised = "none"
            THEN /\ auto_yielded' = TRUE
                 /\ report' = [report EXCEPT !.setup = "passed"]
                 /\ pc' = "call"
            ELSE /\ auto_yielded' = FALSE
                 /\ report' = [report EXCEPT !.setup = r.raised]
                 /\ pc' = "teardown"
    /\ attempts' = Append(attempts, "START")
    /\ UNCHANGED <<cmdVars, scenVars, browser_name, headless_mode, cur, tests_run, sessions,
                   driver_instance, driver_yielded, clock, internal_error>>

\* the test function runs; a test that has the driver uses its session
RunTestBody ==
    /\ pc = "call"
    /\ \E o \in BodyOutcomes : report' = [report EXCEPT !.call = o]
    /\ sessions' = IF cur.uses_driver
                   THEN [sessions EXCEPT ![driver_instance].users =
                                              @ \cup {cur.id}]
                   ELSE sessions
    /\ pc' = "makereport"
    /\ UNCHANGED <<cmdVars, scenVars, browser_name, headless_mode, cur, tests_run,
                   driver_instance, driver_yielded, auto_yielded, printed,
                   files, clock, internal_error, attempts, writes>>

\* lines 207-239 for the report of the call phase (for the setup and the
\* teardown report the condition of line 213 is false)
MakeReport ==
    /\ pc = "makereport"
    /\ \E env \in ReportEnv :
         LET r == pytest_runtest_makereport(files, sessions, "call",
                      report.call # "passed", cur.uses_driver,
                      driver_instance, cur.id, clock, env) IN
         /\ files' = r.files
         /\ writes' = writes + r.saved
         /\ printed' = printed \cup r.printed
         /\ attempts' = attempts \o r.attempted
         /\ internal_error' = (r.raised # "none")
    /\ pc' = "teardown"
    /\ UNCHANGED <<cmdVars, scenVars, browser_name, headless_mode, cur, tests_run, sessions,
                   driver_instance, driver_yielded, auto_yielded, report,
                   clock>>

\* a variant of the runner that finalizes the fixtures in the order their
\* setup began
NextFinalizer_driver_first(auto, drv) ==
    IF drv THEN "driver"
    ELSE IF auto THEN "auto_screenshot_on_steps"
    ELSE "none"

\* the fixture the runner finalizes next.  The setup of the driver fixture
\* runs inside the setup of auto_screenshot_on_steps (line 250) and so ends
\* first; fixtures are finalized in the reverse order of the end of their
\* setup, auto_screenshot_on_steps (lines 259-260) before driver (lines
\* 86-88)
NextFinalizer(auto, drv) ==
    IF auto THEN "auto_screenshot_on_steps"
    ELSE IF drv THEN "driver"
    ELSE "none"

\* lines 248 and 259-260: auto_screenshot_on_steps resumes after its yield
AutoScreenshotEnd ==
    /\ pc = "teardown"
    /\ NextFinalizer(auto_yielded, driver_yielded) = "auto_screenshot_on_steps"
    /\ auto_yielded' = FALSE
    /\ \E env \in ShotEnv :
         LET r == auto_screenshot_end(files, sessions, cur.uses_driver,
                                      driver_instance, cur.id, clock, env) IN
         /\ files' = r.files
         /\ writes' = writes + r.saved
         /\ printed' = printed \cup r.printed
         /\ attempts' = attempts \o r.attempted
         /\ report' = [report EXCEPT !.teardown =
                          IF r.raised = "none" THEN "passed" ELSE r.raised]
    /\ UNCHANGED <<cmdVars, scenVars, browser_name, headless_mode, pc, cur, tests_run, sessions,
                   driver_instance, driver_yielded, clock, internal_error>>

\* lines 86-88: the driver fixture resumes after its yield
DriverTeardown ==
    /\ pc = "teardown"
    /\ NextFinalizer(auto_yielded, driver_yielded) = "driver"
    /\ sessions' = driver_finally(sessions, driver_instance)
    /\ driver_yielded' = FALSE
    /\ report' = [report EXCEPT !.teardown =
                     IF @ = "none" THEN "passed" ELSE @]
    /\ UNCHANGED <<cmdVars, scenVars, browser_name, headless_mode, pc, cur, tests_run,
                   driver_instance, auto_yielded, printed, files, clock,
                   internal_error, attempts, writes>>

\* every finalizer has run: the test is over; after an exception escaped a
\* hook the runner stops instead of taking the next test
FinishTest ==
    /\ pc = "teardown"
    /\ NextFinalizer(auto_yielded, driver_yielded) = "none"
    /\ pc' = IF internal_error THEN "aborted" ELSE "idle"
    /\ tests_run' = tests_run + 1
    /\ report' = [report EXCEPT !.teardown =
                     IF @ = "none" THEN "passed" ELSE @]
    /\ UNCHANGED <<cmdVars, scenVars, browser_name, headless_mode, cur, sessions,
                   driver_instance, driver_yielded, auto_yielded,
                   printed, files, clock, internal_error, attempts, writes>>

\* a second passes while a test function runs (the steps of the runner, the
\* fixtures and the hooks take no time of their own)
Tick ==
    /\ clock < MaxClock
    /\ pc = "call"
    /\ clock' = clock + 1
    /\ UNCHANGED <<cmdVars, scenVars, browser_name, headless_mode, pc, cur, tests_run, sessions,
                   driver_instance, driver_yielded, auto_yielded, report,
                   printed, files, internal_error, attempts, writes>>

\* the names the test bodies pass to the capture helpers
\* (test_full_demo_with_screenshots.py lines 23, 45)
Labels == {"01_homepage_loaded", "03_alpine_button_before_click"}

\* a test body calls self.take_screenshot(driver, label); an exception of the
\* helper ends the body
BodyScreenshot ==
    /\ pc = "call"
    /\ cur.uses_driver
    /\ Len(attempts) <= MaxCaptures
    /\ \E label \in Labels, env \in ShotEnv :
         LET r == take_screenshot(files, sessions, driver_instance,
                                  <<label>>, clock, env) IN
         /\ files' = r.files
         /\ writes' = writes + r.saved
         /\ printed' = printed \cup r.printed
         /\ attempts' = Append(attempts, label)
         /\ IF r.raised = "none"
            THEN UNCHANGED <<pc, report>>
            ELSE /\ pc' = "makereport"
                 /\ report' = [report EXCEPT !.call = r.raised]
    /\ UNCHANGED <<cmdVars, scenVars, browser_name, headless_mode, cur, tests_run, sessions,
                   driver_instance, driver_yielded, auto_yielded, clock,
                   internal_error>>

\* a test body calls self.take_element_screenshot(driver, element, label)
BodyElementScreenshot ==
    /\ pc = "call"
    /\ cur.uses_driver
    /\ Len(attempts) <= MaxCaptures
    /\ \E label \in Labels, env \in ShotEnv :
         LET r == take_element_screenshot(files, sessions, driver_instance,
                                          <<label>>, clock, env) IN
         /\ files' = r.files
         /\ writes' = writes + r.saved
         /\ printed' = printed \cup r.printed
         /\ attempts' = Append(attempts, label)
         /\ IF r.raised = "none"
            THEN UNCHANGED <<pc, report>>
            ELSE /\ pc' = "makereport"
                 /\ report' = [report EXCEPT !.call = r.raised]
    /\ UNCHANGED <<cmdVars, scenVars, browser_name, headless_mode, cur, tests_run, sessions,
                   driver_instance, driver_yielded, auto_yielded, clock,
                   internal_error>>

(***************************************************************************)
(* Part III: the bodies of the scenario tests of tests/selenium, step by   *)
(* step, against the page the live server serves at /                      *)
(***************************************************************************)

\* default timeout of wait_for_page_load
PageLoadTimeout == 30
\* default timeout of wait_for_element, wait_for_element_clickable and
\* wait_for_text_in_element
ElementTimeout == 20
\* the page: the load completes before this many time units have passed
LoadDeadline == 5
\* the page: a click's update is displayed before this many time units have
\* passed
UpdateDeadline == 10

AlpineInitial == <<"Hello World from Alpine.js!">>
AlpineMarker == "Alpine.js is working!"
HtmxMarker == "HTMX is working!"
PageTitle == <<"Amazon Manager">>

\* a text is a sequence of fragments; `marker in element.text`
Contains(text, marker) == \E i \in DOMAIN text : text[i] = marker

\* the page of a session before the first driver.get
BlankPage(conforming, decorated) ==
    [url |-> "none", ready |-> "complete", load_age |-> 0,
     alpine_text |-> <<>>, alpine_pending |-> FALSE, alpine_age |-> 0,
     htmx_text |-> <<>>, htmx_inflight |-> 0, htmx_age |-> 0,
     error_inflight |-> FALSE, injected |-> FALSE,
     window |-> "maximized", scroll |-> "top",
     conforming |-> conforming, decorated |-> decorated]

\* GET url: a fresh document; / carries the reactive display with its initial
\* text and the empty result container
Navigate(p, url, ready) ==
    [BlankPage(p.conforming, p.decorated) EXCEPT
        !.url = url, !.ready = ready, !.window = p.window,
        !.alpine_text = IF url = "/" THEN AlpineInitial ELSE <<>>]

\* the text the reactive control assigns to the bound property
AlpineUpdated(p) ==
    IF p.decorated THEN <<AlpineMarker, "...">> ELSE <<AlpineMarker>>

\* the fragment GET /htmx-demo/ returns
HtmxFragment(p) ==
    IF p.decorated THEN <<"...", HtmxMarker>> ELSE <<HtmxMarker>>

\* an element with this data-testid is in the document
Present(p, el) ==
    /\ p.url = "/"
    /\ p.ready = "complete"
    /\ (el = "htmx-error-button" => p.injected)

\* element.text
Text(p, el) ==
    IF ~Present(p, el) THEN <<>>
    ELSE IF el = "alpine-message" THEN p.alpine_text
    ELSE IF el = "htmx-result" THEN p.htmx_text
    ELSE IF el = "page-title" THEN PageTitle
    ELSE <<el>>

\* a variant of the page whose partial-content-load control empties its
\* target when a request starts
Click_clears_target(p, el) ==
    IF el = "alpine-button"
    THEN [p EXCEPT !.alpine_pending = TRUE,
                   !.alpine_age = IF p.alpine_pending THEN @ ELSE 0]
    ELSE IF el = "htmx-button"
    THEN [p EXCEPT !.htmx_inflight = @ + 1, !.htmx_text = <<>>,
                   !.htmx_age = IF p.htmx_inflight > 0 THEN @ ELSE 0]
    ELSE IF el = "htmx-error-button"
    THEN [p EXCEPT !.error_inflight = TRUE]
    ELSE p

\* element.click()
Click(p, el) ==
    IF el = "alpine-button"
    THEN [p EXCEPT !.alpine_pending = TRUE,
                   !.alpine_age = IF p.alpine_pending THEN @ ELSE 0]
    ELSE IF el = "htmx-button"
    THEN [p EXCEPT !.htmx_inflight = @ + 1,
                   !.htmx_age = IF p.htmx_inflight > 0 THEN @ ELSE 0]
    ELSE IF el = "htmx-error-button"
    THEN [p EXCEPT !.error_inflight = TRUE]
    ELSE p

\* time may pass: a conforming page meets its deadlines first
CanElapse(p) ==
    \/ ~p.conforming
    \/ /\ (p.ready = "loading" => p.load_age + 1 < LoadDeadline)
       /\ (p.alpine_pending => p.alpine_age + 1 < UpdateDeadline)
       /\ (p.htmx_inflight > 0 => p.htmx_age + 1 < UpdateDeadline)

\* one time unit passes
Elapse(p) ==
    IF ~p.conforming THEN p
    ELSE [p EXCEPT
            !.load_age = IF p.ready = "loading" THEN @ + 1 ELSE @,
            !.alpine_age = IF p.alpine_pending THEN @ + 1 ELSE @,
            !.htmx_age = IF p.htmx_inflight > 0 THEN @ + 1 ELSE @]

\* what a script executed in the page returns, as a text
ReadValues(p, what) ==
    IF what = "load_time"
    THEN IF p.ready = "loading" THEN {<<"negative">>}
         ELSE IF p.conforming THEN {<<"fast">>}
         ELSE {<<"fast">>, <<"slow">>}
    ELSE IF what = "scripts"
    THEN {IF Present(p, "script") THEN <<"some">> ELSE <<"none">>}
    ELSE IF what = "libraries"
    THEN {IF Present(p, "script") THEN <<"loaded">> ELSE <<"missing">>}
    ELSE IF what = "class"
    THEN {IF p.htmx_inflight > 0 THEN <<"htmx-request">> ELSE <<>>}
    ELSE IF what = "alpine-message" \/ what = "htmx-result"
    THEN {Text(p, what)}
    ELSE {<<>>}

\* the conditions the bodies wait for and assert
Holds(cond, el, val, p, m) ==
    IF cond = "ready" THEN p.ready = "complete"
    ELSE IF cond = "present" THEN Present(p, el)
    ELSE IF cond = "text_contains" THEN Contains(Text(p, el), val)
    ELSE IF cond = "text_empty" THEN Text(p, el) = <<>>
    ELSE IF cond = "text_changed" THEN Text(p, el) # AlpineInitial
    ELSE IF cond = "class_contains" THEN p.htmx_inflight > 0
    ELSE IF cond = "class_absent" THEN p.htmx_inflight = 0
    ELSE IF cond = "url_is" THEN p.url = val
    ELSE IF cond = "load_time_lt" THEN m \in {<<"negative">>, <<"fast">>}
    ELSE IF cond = "measured" THEN m = <<val>>
    ELSE FALSE

NoMessage == [text |-> "", state |-> <<>>, has_state |-> FALSE,
              timeout |-> FALSE]

\* the steps of a test body
Step(op, cond, el, val, timeout, handler, label, line) ==
    [op |-> op, cond |-> cond, el |-> el, val |-> val, timeout |-> timeout,
     handler |-> handler, label |-> label, line |-> line]
Get(url, line) == Step("get", "none", "", url, 0, "none", "", line)
WaitLoad(line) ==
    Step("wait", "ready", "", "", PageLoadTimeout, "TimeoutException", "", line)
WaitElement(el, line) ==
    Step("wait", "present", el, "", ElementTimeout, "TimeoutException", "", line)
Find(el, line) ==
    Step("wait", "present", el, "", ImplicitWait, "NoSuchElementException",
         "", line)
WaitText(el, marker, timeout, handler, label, line) ==
    Step("wait", "text_contains", el, marker, timeout, handler, label, line)
WaitClass(el, class, timeout, handler, line) ==
    Step("wait", "class_contains", el, class, timeout, handler, "", line)
Read(what, line) == Step("read", "none", "", what, 0, "none", "", line)
AssertThat(cond, el, val, line) ==
    Step("assert", cond, el, val, 0, "none", "", line)
ClickOn(el, line) == Step("click", "none", el, "", 0, "none", "", line)
Inject(el, line) == Step("inject", "none", el, "", 0, "none", "", line)
Resize(size, line) == Step("resize", "none", "", size, 0, "none", "", line)
Scroll(to, line) == Step("scroll", "none", "", to, 0, "none", "", line)
Sleep(units, line) == Step("sleep", "none", "", "", units, "none", "", line)
Shot(label, line) == Step("screenshot", "none", "", "", 0, "none", label, line)
ElementShot(el, label, line) ==
    Step("element_screenshot", "none", el, "", 0, "none", label, line)

\* test_homepage.py lines 121-144
test_page_performance_metrics ==
    << Get("/", 123),
       Read("load_time", 126),
       AssertThat("load_time_lt", "", "5000", 133),
       Read("scripts", 136),
       AssertThat("measured", "", "some", 137),
       Read("libraries", 140),
       AssertThat("measured", "", "loaded", 143) >>

\* test_full_demo_with_screenshots.py lines 153-178
test_error_scenarios_with_screenshots ==
    << Get("/", 159),
       WaitLoad(160),
       Shot("error_test_01_homepage", 161),
       Read("browser_log", 164),
       Shot("error_test_02_console_check", 167),
       Get("/non-existent-page/", 170),
       Shot("error_test_03_404_page", 171),
       Get("/", 174),
       WaitLoad(175),
       Shot("error_test_04_back_to_homepage", 176) >>

\* test_htmx_functionality.py lines 199-231
test_htmx_error_handling ==
    << Get("/", 201),
       WaitLoad(202),
       Inject("htmx-error-button", 205),
       Find("htmx-error-button", 215),
       Find("htmx-result", 218),
       ClickOn("htmx-error-button", 223),
       Sleep(2, 226),
       AssertThat("url_is", "", "/", 231) >>

\* test_alpine_functionality.py lines 194-235
test_alpine_state_persistence ==
    << Get("/", 196),
       WaitLoad(197),
       WaitElement("alpine-button", 199),
       Find("alpine-message", 203),
       ClickOn("alpine-button", 208),
       WaitText("alpine-message", AlpineMarker, 5, "TimeoutException", "", 210),
       Scroll("100", 215),
       Sleep(1, 216),
       Scroll("top", 217),
       AssertThat("text_contains", "alpine-message", AlpineMarker, 220),
       \* lines 223-235: the except clause repeats the assertion of
       \* line 231, so an exception in the try block ends the body with the
       \* outcome of that assertion
       Find("htmx-button", 224),
       ClickOn("htmx-button", 227),
       Sleep(1, 228),
       AssertThat("text_contains", "alpine-message", AlpineMarker, 231) >>

\* test_alpine_functionality.py lines 87-123
test_alpine_reactivity ==
    << Get("/", 89),
       WaitLoad(90),
       WaitElement("alpine-button", 93),
       Find("alpine-message", 97),
       Read("alpine-message", 102),
       AssertThat("text_contains", "alpine-message", AlpineInitial[1], 103),
       ClickOn("alpine-button", 106),
       WaitText("alpine-message", AlpineMarker, 10, "report",
                "alpine_reactivity_failure", 110),
       Read("alpine-message", 115),
       AssertThat("text_contains", "alpine-message", AlpineMarker, 116),
       AssertThat("text_changed", "alpine-message", "", 117) >>

\* test_alpine_functionality.py lines 139-150: one round of the loop
alpine_interaction_round ==
    << ClickOn("alpine-button", 140),
       WaitText("alpine-message", AlpineMarker, 5, "TimeoutException", "", 143),
       AssertThat("text_contains", "alpine-message", AlpineMarker, 147),
       Sleep(1, 150) >>

\* test_alpine_functionality.py lines 125-150
test_alpine_multiple_interactions ==
    << Get("/", 127),
       WaitLoad(128),
       WaitElement("alpine-button", 130),
       Find("alpine-message", 134) >>
    \o alpine_interaction_round \o alpine_interaction_round
    \o alpine_interaction_round

\* test_htmx_functionality.py lines 71-109
test_htmx_content_loading ==
    << Get("/", 73),
       WaitLoad(74),
       WaitElement("htmx-button", 77),
       Find("htmx-result", 81),
       AssertThat("text_empty", "htmx-result", "", 86),
       ClickOn("htmx-button", 89),
       WaitText("htmx-result", HtmxMarker, 10, "report",
                "htmx_load_failure", 93),
       AssertThat("text_contains", "htmx-result", HtmxMarker, 101) >>

\* test_htmx_functionality.py lines 125-139: one round of the loop
htmx_click_round ==
    << ClickOn("htmx-button", 126),
       WaitText("htmx-result", HtmxMarker, 5, "TimeoutException", "", 129),
       AssertThat("text_contains", "htmx-result", HtmxMarker, 136),
       Sleep(1, 139) >>

\* test_htmx_functionality.py lines 111-139
test_htmx_multiple_clicks ==
    << Get("/", 113),
       WaitLoad(114),
       WaitElement("htmx-button", 116),
       Find("htmx-result", 120) >>
    \o htmx_click_round \o htmx_click_round \o htmx_click_round

\* test_htmx_functionality.py lines 161-197
test_htmx_loading_states ==
    << Get("/", 163),
       WaitLoad(164),
       WaitElement("htmx-button", 166),
       Read("class", 173),
       ClickOn("htmx-button", 175),
       WaitClass("htmx-button", "htmx-request", 1, "pass", 180),
       WaitText("htmx-result", HtmxMarker, 10, "TimeoutException", "", 188),
       Read("class", 196),
       AssertThat("class_absent", "htmx-button", "htmx-request", 197) >>

\* test_full_demo_with_screenshots.py lines 16-151
test_complete_homepage_workflow_with_screenshots ==
    << Get("/", 21),
       WaitLoad(22),
       Shot("01_homepage_loaded", 23),
       WaitElement("page-title", 27),
       AssertThat("text_contains", "page-title", PageTitle[1], 31),
       Shot("02_page_structure_verified", 32),
       WaitElement("alpine-button", 36),
       Find("alpine-message", 40),
       ElementShot("alpine-button", "03_alpine_button_before_click", 45),
       Read("alpine-message", 48),
       AssertThat("text_contains", "alpine-message", AlpineInitial[1], 49),
       Shot("04_alpine_initial_state", 50),
       ClickOn("alpine-button", 54),
       WaitText("alpine-message", AlpineMarker, 10, "TimeoutException", "", 57),
       Shot("05_alpine_after_click", 62),
       ElementShot("alpine-message", "06_alpine_message_updated", 63),
       Find("htmx-button", 67),
       Find("htmx-result", 70),
       ElementShot("htmx-button", "07_htmx_button_before_click", 75),
       AssertThat("text_empty", "htmx-result", "", 78),
       Shot("08_htmx_initial_state", 79),
       ClickOn("htmx-button", 83),
       WaitText("htmx-result", HtmxMarker, 10, "TimeoutException", "", 86),
       Shot("09_htmx_after_click", 94),
       ElementShot("htmx-result", "10_htmx_result_loaded", 95),
       ClickOn("alpine-button", 101),
       Sleep(1, 102),
       Shot("11_alpine_second_click", 103),
       ClickOn("htmx-button", 106),
       Sleep(1, 107),
       Shot("12_htmx_second_click", 108),
       Resize("375x667", 114),
       Sleep(1, 115),
       Shot("13_mobile_view", 116),
       Resize("768x1024", 119),
       Sleep(1, 120),
       Shot("14_tablet_view", 121),
       Resize("maximized", 124),
       Sleep(1, 125),
       Shot("15_desktop_view_restored", 126),
       Scroll("bottom", 132),
       Sleep(1, 133),
       Shot("16_scrolled_to_bottom", 134),
       Scroll("top", 137),
       Sleep(1, 138),
       Shot("17_scrolled_to_top", 139),
       AssertThat("text_contains", "alpine-message", AlpineMarker, 145),
       AssertThat("text_contains", "htmx-result", HtmxMarker, 146),
       Shot("18_final_verification_complete", 149) >>

ScenarioTests ==
    {"test_page_performance_metrics", "test_error_scenarios_with_screenshots",
     "test_htmx_error_handling", "test_alpine_state_persistence",
     "test_alpine_reactivity", "test_alpine_multiple_interactions",
     "test_htmx_content_loading", "test_htmx_multiple_clicks",
     "test_htmx_loading_states",
     "test_complete_homepage_workflow_with_screenshots"}

Script(t) ==
    CASE t = "test_page_performance_metrics" -> test_page_performance_metrics
      [] t = "test_error_scenarios_with_screenshots" ->
             test_error_scenarios_with_screenshots
      [] t = "test_htmx_error_handling" -> test_htmx_error_handling
      [] t = "test_alpine_state_persistence" -> test_alpine_state_persistence
      [] t = "test_alpine_reactivity" -> test_alpine_reactivity
      [] t = "test_alpine_multiple_interactions" ->
             test_alpine_multiple_interactions
      [] t = "test_htmx_content_loading" -> test_htmx_content_loading
      [] t = "test_htmx_multiple_clicks" -> test_htmx_multiple_clicks
      [] t = "test_htmx_loading_states" -> test_htmx_loading_states
      [] t = "test_complete_homepage_workflow_with_screenshots" ->
             test_complete_homepage_workflow_with_screenshots
      [] OTHER -> <<>>

\* WebDriverWait(driver, timeout).until(condition), one iteration: the
\* condition is checked, then the loop sleeps one poll interval unless the
\* timeout has elapsed
until(holds, waited, timeout) ==
    IF holds THEN "returned"
    ELSE IF waited < timeout THEN "sleep"
    ELSE "TimeoutException"

\* a variant of the reactive control that toggles between the two texts
AlpineApply_toggle(p) ==
    [p EXCEPT !.alpine_text = IF @ = AlpineInitial THEN AlpineUpdated(p)
                              ELSE AlpineInitial,
              !.alpine_pending = FALSE, !.alpine_age = 0]

\* Alpine applies the assignment of the control's click directive
AlpineApply(p) ==
    [p EXCEPT !.alpine_text = AlpineUpdated(p), !.alpine_pending = FALSE,
              !.alpine_age = 0]

\* a variant of the swap that leaves the class htmx-request on the control
HtmxSwap_indicator_stays(p) ==
    [p EXCEPT !.htmx_text = HtmxFragment(p), !.htmx_age = 0]

\* the response to a request of the partial-content-load control arrives:
\* the fragment replaces the inner content of the target and, when no other
\* request is in flight, the control loses the class htmx-request
HtmxSwap(p) ==
    [p EXCEPT !.htmx_text = HtmxFragment(p), !.htmx_inflight = @ - 1,
              !.htmx_age = 0]

fixedVars == <<cmdVars, browser_name, headless_mode, cur, tests_run,
               driver_instance, driver_yielded, auto_yielded, clock,
               internal_error>>
captureVars == <<printed, files, attempts, writes>>
bodyEndVars == <<pc, report, sessions, failure_message>>

Running == pc = "call" /\ test # "none" /\ ip <= Len(Script(test))
Current == Script(test)[ip]

\* the body ends: by returning ("passed") or by an exception
EndBody(outcome, message) ==
    /\ report' = [report EXCEPT !.call = outcome]
    /\ failure_message' = message
    /\ sessions' = [sessions EXCEPT ![driver_instance].users = @ \cup {cur.id}]
    /\ pc' = "makereport"

\* driver.get(url)
DriverGet ==
    /\ Running
    /\ Current.op = "get"
    /\ \E ready \in {"loading", "complete"} :
          page' = Navigate(page, Current.val, ready)
    /\ nav_waited' = FALSE
    /\ ip' = ip + 1
    /\ UNCHANGED <<fixedVars, captureVars, bodyEndVars, test, elapsed,
                   measured, synced>>

\* one iteration of a bounded wait: wait_for_page_load, wait_for_element,
\* wait_for_element_clickable, wait_for_text_in_element, WebDriverWait(...)
\* .until(...) and the implicit wait of find_element, with the except
\* clause around it where the body has one
BoundedWait ==
    /\ Running
    /\ Current.op = "wait"
    /\ LET st == Current
           u == until(Holds(st.cond, st.el, st.val, page, measured),
                      elapsed, st.timeout)
       IN
       IF u = "returned"
       THEN /\ ip' = ip + 1
            /\ elapsed' = 0
            /\ nav_waited' = (nav_waited \/ st.cond = "ready")
            /\ synced' = (synced \/
                          st.cond \in {"text_contains", "class_contains"})
            /\ UNCHANGED <<captureVars, bodyEndVars, page>>
       ELSE IF u = "sleep"
       THEN /\ CanElapse(page)
            /\ page' = Elapse(page)
            /\ elapsed' = elapsed + 1
            /\ UNCHANGED <<captureVars, bodyEndVars, ip, nav_waited, synced>>
       ELSE IF st.handler = "pass"
       THEN /\ ip' = ip + 1
            /\ elapsed' = 0
            /\ UNCHANGED <<captureVars, bodyEndVars, page, nav_waited, synced>>
       ELSE IF st.handler = "report"
       THEN /\ \E env \in {"ok", "makedirs_fails"} :
                 LET r == take_screenshot(files, sessions, driver_instance,
                                          <<st.label>>, clock, env) IN
                 /\ files' = r.files
                 /\ writes' = writes + r.saved
                 /\ printed' = printed \cup r.printed
                 /\ IF r.raised = "none"
                    THEN EndBody("AssertionError",
                                 [text |-> "Message remained:",
                                  state |-> Text(page, st.el),
                                  has_state |-> TRUE, timeout |-> TRUE])
                    ELSE EndBody(r.raised,
                                 [text |-> "", state |-> <<>>,
                                  has_state |-> FALSE, timeout |-> TRUE])
            /\ attempts' = Append(attempts, st.label)
            /\ UNCHANGED <<ip, elapsed, page, nav_waited, synced>>
       ELSE /\ EndBody(st.handler,
                       [text |-> "", state |-> <<>>, has_state |-> FALSE,
                        timeout |-> TRUE])
            /\ UNCHANGED <<captureVars, ip, elapsed, page, nav_waited, synced>>
    /\ UNCHANGED <<fixedVars, test, measured>>

\* driver.execute_script(...) / element.text / get_attribute / get_log that
\* reads a value
ReadPage ==
    /\ Running
    /\ Current.op = "read"
    /\ \E v \in ReadValues(page, Current.val) : measured' = v
    /\ ip' = ip + 1
    /\ UNCHANGED <<fixedVars, captureVars, bodyEndVars, test, elapsed, page,
                   nav_waited, synced>>

\* assert ...
AssertStep ==
    /\ Running
    /\ Current.op = "assert"
    /\ LET st == Current IN
       IF Holds(st.cond, st.el, st.val, page, measured)
       THEN /\ ip' = ip + 1
            /\ UNCHANGED bodyEndVars
       ELSE /\ EndBody("AssertionError",
                       [text |-> "assert",
                        state |-> IF st.el = "" THEN measured
                                  ELSE Text(page, st.el),
                        has_state |-> TRUE, timeout |-> FALSE])
            /\ UNCHANGED ip
    /\ UNCHANGED <<fixedVars, captureVars, test, elapsed, page, measured,
                   nav_waited, synced>>

\* element.click()
ClickStep ==
    /\ Running
    /\ Current.op = "click"
    /\ page' = Click(page, Current.el)
    /\ synced' = FALSE
    /\ ip' = ip + 1
    /\ UNCHANGED <<fixedVars, captureVars, bodyEndVars, test, elapsed,
                   measured, nav_waited>>

\* driver.execute_script that appends the error control or scrolls,
\* driver.set_window_size, driver.maximize_window
PageCommand ==
    /\ Running
    /\ Current.op \in {"inject", "resize", "scroll"}
    /\ page' = IF Current.op = "inject" THEN [page EXCEPT !.injected = TRUE]
               ELSE IF Current.op = "resize"
               THEN [page EXCEPT !.window = Current.val]
               ELSE [page EXCEPT !.scroll = Current.val]
    /\ ip' = ip + 1
    /\ UNCHANGED <<fixedVars, captureVars, bodyEndVars, test, elapsed,
                   measured, nav_waited, synced>>

\* time.sleep(...), one time unit of it (a sleep shorter than the unit takes
\* one unit)
SleepStep ==
    /\ Running
    /\ Current.op = "sleep"
    /\ CanElapse(page)
    /\ page' = Elapse(page)
    /\ IF elapsed + 1 >= Current.timeout
       THEN ip' = ip + 1 /\ elapsed' = 0
       ELSE ip' = ip /\ elapsed' = elapsed + 1
    /\ UNCHANGED <<fixedVars, captureVars, bodyEndVars, test, measured,
                   nav_waited, synced>>

\* self.take_screenshot(driver, label) / self.take_element_screenshot(driver,
\* element, label) in a body; a capture whose save fails differs only in
\* the files (specification SpecCapture) and is left out here
CaptureStep ==
    /\ Running
    /\ Current.op \in {"screenshot", "element_screenshot"}
    /\ \E env \in {"ok", "makedirs_fails"} :
         LET st == Current
             r == IF st.op = "screenshot"
                  THEN take_screenshot(files, sessions, driver_instance,
                                       <<st.label>>, clock, env)
                  ELSE take_element_screenshot(files, sessions,
                           driver_instance, <<st.label>>, clock, env)
         IN /\ files' = r.files
            /\ writes' = writes + r.saved
            /\ printed' = printed \cup r.printed
            /\ attempts' = Append(attempts, st.label)
            /\ IF r.raised = "none"
               THEN /\ ip' = ip + 1
                    /\ UNCHANGED bodyEndVars
               ELSE /\ EndBody(r.raised, NoMessage)
                    /\ UNCHANGED ip
    /\ UNCHANGED <<fixedVars, test, elapsed, page, measured, nav_waited,
                   synced>>

\* the body returns
BodyReturns ==
    /\ pc = "call"
    /\ test # "none"
    /\ ip = Len(Script(test)) + 1
    /\ EndBody("passed", NoMessage)
    /\ UNCHANGED <<fixedVars, captureVars, scenVars>>

\* the page: the load event has fired, document.readyState is complete
PageLoads ==
    /\ Running
    /\ page.ready = "loading"
    /\ page' = [page EXCEPT !.ready = "complete", !.load_age = 0]
    /\ UNCHANGED <<fixedVars, captureVars, bodyEndVars, test, ip, elapsed,
                   measured, nav_waited, synced>>

\* the page: the reactive display shows the assigned text
AlpineUpdates ==
    /\ Running
    /\ page.alpine_pending
    /\ page' = AlpineApply(page)
    /\ UNCHANGED <<fixedVars, captureVars, bodyEndVars, test, ip, elapsed,
                   measured, nav_waited, synced>>

\* the page: GET /htmx-demo/ has answered
HtmxResponds ==
    /\ Running
    /\ page.htmx_inflight > 0
    /\ page' = HtmxSwap(page)
    /\ UNCHANGED <<fixedVars, captureVars, bodyEndVars, test, ip, elapsed,
                   measured, nav_waited, synced>>

\* a variant of the page that shows the error response in place of the
\* document
ErrorResponse_replaces_document(p) ==
    Navigate(p, "/invalid-url/", "complete")

\* the error response to the request of the injected control: it is not
\* swapped into the target and the document stays
ErrorResponse(p) == [p EXCEPT !.error_inflight = FALSE]

\* the page: GET /invalid-url/ has answered with an error
ErrorResponds ==
    /\ Running
    /\ page.error_inflight
    /\ page' = ErrorResponse(page)
    /\ UNCHANGED <<fixedVars, captureVars, bodyEndVars, test, ip, elapsed,
                   measured, nav_waited, synced>>

\* no scenario body is running
ScenarioIdle ==
    /\ test = "none"
    /\ ip = 0
    /\ elapsed = 0
    /\ page = BlankPage(TRUE, FALSE)
    /\ measured = <<>>
    /\ nav_waited = FALSE
    /\ synced = TRUE
    /\ failure_message = NoMessage

(***************************************************************************)
(* Specifications                                                          *)
(***************************************************************************)
\* Spec: the management command alone; the harness is idle
HarnessIdle ==
    /\ browser_name = chrome
    /\ headless_mode = FALSE
    /\ pc = "idle"
    /\ cur = NoTest
    /\ tests_run = 0
    /\ sessions = <<>>
    /\ driver_instance = 0
    /\ driver_yielded = FALSE
    /\ auto_yielded = FALSE
    /\ report = NoReport
    /\ printed = {}
    /\ files = {}
    /\ clock = 0
    /\ internal_error = FALSE
    /\ attempts = <<>>
    /\ writes = 0

Init == CmdInit /\ HarnessIdle /\ ScenarioIdle

Next == Handle

Spec == Init /\ [][Next]_vars

\* SpecHarness: the test runner alone; the tables are empty and untouched
CmdIdle ==
    /\ pages = {}
    /\ sites = {}
    /\ stdout = <<>>
    /\ raised = "none"
    /\ runs = 0

InitHarness == HarnessInit /\ CmdIdle /\ ScenarioIdle

NextHarness ==
    \/ StartTest
    \/ AutoScreenshotSkip
    \/ DriverFixtureSetup
    \/ AutoScreenshotStart
    \/ RunTestBody
    \/ MakeReport
    \/ AutoScreenshotEnd
    \/ DriverTeardown
    \/ FinishTest
    \/ Tick

SpecHarness == InitHarness /\ [][NextHarness]_vars

\* SpecCapture: the body of one test that holds a session, from the moment
\* auto_screenshot_on_steps has saved the START capture and yielded
InitCapture ==
    /\ CmdIdle
    /\ browser_name = chrome
    /\ headless_mode = FALSE
    /\ pc = "call"
    /\ cur = [id |-> 1, uses_driver |-> TRUE]
    /\ tests_run = 0
    /\ sessions = driver_setup(<<>>, chrome, FALSE, "ok", 1).sessions
    /\ driver_instance = 1
    /\ driver_yielded = TRUE
    /\ auto_yielded = TRUE
    /\ report = [NoReport EXCEPT !.setup = "passed"]
    /\ printed = {"Screenshot saved"}
    /\ files = {FileName(<<"START", 1>>, 0, "png")}
    /\ clock = 0
    /\ internal_error = FALSE
    /\ attempts = <<"START">>
    /\ writes = 1
    /\ ScenarioIdle

NextCapture ==
    \/ BodyScreenshot
    \/ BodyElementScreenshot
    \/ Tick

SpecCapture == InitCapture /\ [][NextCapture]_vars

\* SpecScenario: the body of one scenario test, from the moment
\* auto_screenshot_on_steps has yielded, on any page, to the end of the
\* test's teardown
InitScenario ==
    /\ CmdIdle
    /\ browser_name = chrome
    /\ headless_mode = FALSE
    /\ pc = "call"
    /\ cur = [id |-> 1, uses_driver |-> TRUE]
    /\ tests_run = 0
    /\ sessions = driver_setup(<<>>, chrome, FALSE, "ok", 1).sessions
    /\ driver_instance = 1
    /\ driver_yielded = TRUE
    /\ auto_yielded = TRUE
    /\ report = [NoReport EXCEPT !.setup = "passed"]
    /\ printed = {"Screenshot saved"}
    /\ files = {FileName(<<"START", 1>>, 0, "png")}
    /\ clock = 0
    /\ internal_error = FALSE
    /\ attempts = <<"START">>
    /\ writes = 1
    /\ test \in ScenarioTests
    /\ ip = 1
    /\ elapsed = 0
    /\ \E c, d \in BOOLEAN : page = BlankPage(c, d)
    /\ measured = <<>>
    /\ nav_waited = FALSE
    /\ synced = TRUE
    /\ failure_message = NoMessage

NextScenario ==
    \/ DriverGet
    \/ BoundedWait
    \/ ReadPage
    \/ AssertStep
    \/ ClickStep
    \/ PageCommand
    \/ SleepStep
    \/ CaptureStep
    \/ BodyReturns
    \/ PageLoads
    \/ AlpineUpdates
    \/ HtmxResponds
    \/ ErrorResponds
    \/ MakeReport
    \/ AutoScreenshotEnd
    \/ DriverTeardown
    \/ FinishTest

SpecScenario == InitScenario /\ [][NextScenario]_vars

(***************************************************************************)
(* Claims about the driver fixture and the diagnostics helpers             *)
(* (specification SpecHarness)                                             *)
(***************************************************************************)
TestOver == pc \in {"idle", "aborted"}
Alive == {d \in DOMAIN sessions : sessions[d].alive}

\* C7: every launched session is quit exactly once, on every exit path: it
\* is quit at most once, it is alive only while the driver fixture of its
\* test holds it, and once its test is over it is dead and was quit once.
C7_SessionReleasedOnce ==
    \A d \in DOMAIN sessions :
        /\ sessions[d].quits <= 1
        /\ sessions[d].alive <=> sessions[d].quits = 0
        /\ sessions[d].alive =>
              (driver_yielded /\ driver_instance = d /\ ~TestOver)
        /\ (TestOver \/ sessions[d].owner # cur.id) =>
              (~sessions[d].alive /\ sessions[d].quits = 1)

\* two tests are over: the session of the first failed its post-launch
\* configuration, the test body of the second raised
C7_Witness ==
    /\ pc = "idle" /\ tests_run = 2 /\ Len(sessions) = 2
    /\ sessions[1].implicit_wait = 0 /\ sessions[1].quits = 1
    /\ report.call = "TimeoutException"
    /\ sessions[2].users = {2} /\ sessions[2].quits = 1

\* C8: sessions are function-scoped: at most one session is alive at any
\* moment, no session is used by a test other than the one it was launched
\* for, and the session a test is handed is the one launched last, for this
\* test, alive and not used before the test body runs.
C8_SessionPerTest ==
    /\ Cardinality(Alive) <= 1
    /\ \A d \in DOMAIN sessions : sessions[d].users \subseteq {sessions[d].owner}
    /\ \A d, e \in DOMAIN sessions :
          sessions[d].owner = sessions[e].owner => d = e
    /\ (cur.uses_driver /\ pc \in {"start_shot", "call", "makereport"}) =>
          /\ driver_instance = Len(sessions)
          /\ sessions[driver_instance].owner = cur.id
          /\ sessions[driver_instance].alive
          /\ (pc # "makereport" => sessions[driver_instance].users = {})

\* two tests in a row each used a session of their own
C8_Witness ==
    /\ Len(sessions) = 2
    /\ sessions[1].users = {1}
    /\ sessions[2].users = {2}
    /\ pc = "makereport"

SupportedSpellings ==
    {chrome, firefox, headless_chrome, <<"C","h","r","o","m","e">>}

\* C9: with a --browser value other than chrome, firefox or headless-chrome
\* (in any letter case) the setup of every test that asks for the driver
\* ends in ValueError: no session is ever launched or quit and the test body
\* does not run; a supported value, in any letter case, never raises
\* ValueError.
C9_UnsupportedBrowserRejected ==
    /\ (browser_name \notin SupportedSpellings) =>
          /\ sessions = <<>>
          /\ driver_instance = 0
          /\ ~driver_yielded
          /\ cur.uses_driver =>
                /\ report.call = "none"
                /\ pc \notin {"start_shot", "call", "makereport"}
                /\ pc \in {"teardown", "idle", "aborted"} =>
                      report.setup = "ValueError"
    /\ (browser_name \in SupportedSpellings) => report.setup # "ValueError"

C9_Witness ==
    /\ browser_name = <<"s","a","f","a","r","i">>
    /\ cur.uses_driver
    /\ pc = "idle" /\ tests_run >= 1
    /\ report.setup = "ValueError"

\* C10 (as stated): a failure during a capture is caught and logged and
\* never propagated: no phase of a test ends in the capture's exception and
\* no exception escapes the failure hook, so the reports are what they would
\* have been without the capture.
C10_CaptureFailureNeverPropagates ==
    /\ report.setup \in {"none", "passed", "ValueError", "WebDriverException"}
    /\ report.teardown \in {"none", "passed"}
    /\ ~internal_error

FailedPng(id, ts) == FileName(<<"FAILED", id>>, ts, "png")
FailedSource(id, ts) == FileName(<<"FAILED", id>>, ts, "_source.html")
CallReported == pc \in {"teardown", "idle", "aborted"} /\ report.call # "none"

\* C11 (as stated): whenever a test that holds a session is reported as
\* failed, both FAILED_{test-id}_{timestamp}.png and its _source.html are
\* written; when the test passes, neither is written.
C11_FailureAlwaysCaptured ==
    (CallReported /\ cur.uses_driver) =>
        IF report.call = "passed"
        THEN \A f \in files : f.name # <<"FAILED", cur.id>>
        ELSE \E ts \in 0..MaxClock :
                 {FailedPng(cur.id, ts), FailedSource(cur.id, ts)} \subseteq files

\* C11 (amended): the hook attempts the failure capture exactly when the call
\* phase of a test that holds a session is reported as failed.  The attempt
\* writes both files, or the screenshot alone when the page source cannot be
\* written, or nothing when the screenshot cannot be taken (both logged), or
\* nothing with the error escaping the hook when the directory cannot be
\* created.  For a passed call, and for a test without a session, nothing is
\* attempted, written or printed.
C11_FailureCaptureBestEffort ==
    [][pc = "makereport" =>
         LET png == FailedPng(cur.id, clock)
             source == FailedSource(cur.id, clock)
         IN IF cur.uses_driver /\ report.call # "passed"
            THEN /\ attempts' = Append(attempts, "FAILED")
                 /\ \/ /\ files' = files \cup {png, source}
                       /\ writes' = writes + 2
                       /\ "Page source saved" \in printed'
                       /\ ~internal_error'
                    \/ /\ files' = files \cup {png}
                       /\ writes' = writes + 1
                       /\ "Failed to capture failure screenshot" \in printed'
                       /\ ~internal_error'
                    \/ /\ files' = files
                       /\ writes' = writes
                       /\ "Failed to capture failure screenshot" \in printed'
                       /\ ~internal_error'
                    \/ /\ files' = files
                       /\ writes' = writes
                       /\ printed' = printed
                       /\ internal_error'
            ELSE /\ attempts' = attempts
                 /\ files' = files
                 /\ writes' = writes
                 /\ printed' = printed
                 /\ ~internal_error']_vars

\* the call of a test with a session timed out and the hook wrote both files
C11_Witness ==
    /\ pc = "teardown"
    /\ cur.uses_driver
    /\ report.call = "TimeoutException"
    /\ attempts = <<"START", "FAILED">>
    /\ {FailedPng(cur.id, clock), FailedSource(cur.id, clock)} \subseteq files

C20_LaunchFailureIsSetupError ==
    (/\ cur.uses_driver
     /\ pc # "setup"
     /\ driver_instance = 0
     /\ browser_name \in SupportedSpellings) =>
        /\ report.setup = "WebDriverException"
        /\ report.call = "none"
        /\ pc \in {"teardown", "idle", "aborted"}
        /\ ~driver_yielded
        /\ ~auto_yielded
        /\ attempts = <<>>
        /\ \A d \in DOMAIN sessions :
              /\ sessions[d].owner # cur.id
              /\ ~sessions[d].alive
              /\ sessions[d].quits = 1

\* the first test got its session; the launch for the second test failed
C20_Witness ==
    /\ pc = "idle" /\ tests_run = 2
    /\ cur.uses_driver
    /\ driver_instance = 0
    /\ Len(sessions) = 1
    /\ report.setup = "WebDriverException"
    /\ report.call = "none"

\* C13 (as stated): the files under test_screenshots are append-only and
\* uniquely named: every capture that saves a file adds a path that was not
\* there, so there are as many files as saves.
C13_NoCaptureOverwrites == Cardinality(files) = writes

(***************************************************************************)
(* Claims about the scenario tests (specification SpecScenario)            *)
(***************************************************************************)
\* C14 (as stated): in every scenario test, an element is located, a page
\* measurement is read or an assertion is made only after
\* wait_for_page_load has returned for the latest navigation.
C14_WaitAfterEveryNavigation ==
    (/\ Running
     /\ \/ Current.op \in {"read", "assert"}
        \/ Current.op = "wait" /\ Current.cond # "ready") => nav_waited

\* C15 (as stated): in every scenario test, an assertion made after a click
\* is made only after an explicit wait condition has returned since that
\* click; a sleep alone never stands between a click and an assertion.
C15_AssertOnlyAfterExplicitWait ==
    (Running /\ Current.op = "assert") => synced

\* C16 (as stated): a bounded wait polls for at most its timeout; when it
\* expires the test is reported as failed with a message that includes the
\* state observed last, and once the test is over its session has been
\* quit.
C16_TimeoutIsDescriptiveFailure ==
    /\ (Running /\ Current.op = "wait") => elapsed <= Current.timeout
    /\ failure_message.timeout =>
          /\ report.call \in {"AssertionError", "TimeoutException",
                              "NoSuchElementException", "OSError"}
          /\ failure_message.has_state
          /\ TestOver => (~sessions[1].alive /\ sessions[1].quits = 1)

OnHomepage(p) == p.url = "/" /\ p.ready = "complete"

\* C17: on the page at /, the display shows exactly the initial text until
\* the reactive control is clicked; the update of a click is displayed
\* before 10 time units have passed, so test_alpine_reactivity, which waits
\* 10, passes; once the display contains the marker it keeps its text under
\* every later step on that page: scrolls, further clicks, their updates.
C17_AlpineUpdatesAndStays ==
    /\ [](/\ (page.conforming /\ page.alpine_pending) =>
                page.alpine_age < UpdateDeadline
          /\ (test = "test_alpine_reactivity" /\ Running /\ ip <= 7) =>
                page.alpine_text \in {<<>>, AlpineInitial}
          /\ (test = "test_alpine_reactivity" /\ page.conforming) =>
                report.call \in {"none", "passed"}
          /\ (test \in {"test_alpine_reactivity",
                        "test_alpine_multiple_interactions",
                        "test_alpine_state_persistence"}) =>
                (report.call = "AssertionError" => failure_message.timeout))
    /\ [][(Contains(page.alpine_text, AlpineMarker) /\ page'.url = page.url
           /\ OnHomepage(page'))
             => page'.alpine_text = page.alpine_text]_vars

\* the control was clicked three times and the three waits and assertions
\* of test_alpine_multiple_interactions passed
C17_Witness ==
    /\ test = "test_alpine_multiple_interactions"
    /\ report.call = "passed"
    /\ Contains(page.alpine_text, AlpineMarker)

\* C18: on the page at /, the result container is empty until the
\* partial-content-load control is clicked; every response puts the marker
\* into the container, and on a conforming page arrives before 10 time
\* units have passed, so test_htmx_content_loading, which waits 10, passes;
\* the assertions after each of the 3 clicks of test_htmx_multiple_clicks
\* never fail; once the result is shown after the single click of
\* test_htmx_loading_states the control does not carry htmx-request.
C18_HtmxLoadsAndRepeats ==
    /\ [](/\ (page.conforming /\ page.htmx_inflight > 0) =>
                page.htmx_age < UpdateDeadline
          /\ (test = "test_htmx_content_loading" /\ Running /\ ip <= 6) =>
                page.htmx_text = <<>>
          /\ (test = "test_htmx_content_loading" /\ page.conforming) =>
                report.call \in {"none", "passed"}
          /\ (test \in {"test_htmx_content_loading",
                        "test_htmx_multiple_clicks",
                        "test_htmx_loading_states"}) =>
                (report.call = "AssertionError" => failure_message.timeout))
    /\ [][page'.htmx_inflight < page.htmx_inflight
             => Contains(page'.htmx_text, HtmxMarker)]_vars

\* the three rounds of test_htmx_multiple_clicks passed
C18_Witness ==
    /\ test = "test_htmx_multiple_clicks"
    /\ report.call = "passed"
    /\ Contains(page.htmx_text, HtmxMarker)
    /\ page.htmx_inflight = 0

\* C19: in test_complete_homepage_workflow_with_screenshots, from the return
\* of the wait for the result container on, the display contains the
\* Alpine marker and the container the HTMX marker at every later step
\* (second clicks, both resizes, the restore, both scrolls), so no assertion
\* of the scenario fails; on a conforming page no wait expires either.
C19_UpdatedStatesPersist ==
    (test = "test_complete_homepage_workflow_with_screenshots") =>
        /\ ip > 23 =>
              /\ Contains(page.alpine_text, AlpineMarker)
              /\ Contains(page.htmx_text, HtmxMarker)
        /\ report.call \in {"none", "passed", "TimeoutException", "OSError"}
        /\ page.conforming => report.call # "TimeoutException"

\* the scenario has passed with the window restored and scrolled to the top
C19_Witness ==
    /\ test = "test_complete_homepage_workflow_with_screenshots"
    /\ report.call = "passed"
    /\ page.window = "maximized"
    /\ page.scroll = "top"
    /\ page.alpine_pending
    /\ Len(attempts) = 19

\* the step is the click of the control el by the running body
Clicks(el) == Running /\ Current.op = "click" /\ Current.el = el /\ ip' = ip + 1

C22_CapturesUseLiveSession ==
    /\ [][(attempts' # attempts /\ attempts' # <<>>) =>
             /\ driver_instance \in DOMAIN sessions
             /\ sessions[driver_instance].owner = cur.id
             /\ sessions[driver_instance].alive
             /\ sessions[driver_instance].quits = 0
             /\ sessions' = sessions]_vars
    /\ [][(/\ driver_yielded
           /\ \E d \in DOMAIN sessions :
                 sessions'[d].quits > sessions[d].quits) =>
             /\ attempts' = attempts
             /\ IF report.call = "none"
                THEN attempts = <<"START">>
                ELSE IF report.call = "passed"
                THEN attempts = <<"START", "END">>
                ELSE attempts = <<"START", "FAILED", "END">>]_vars
    /\ [](\A d \in DOMAIN sessions :
             (~sessions[d].alive /\ sessions[d].owner = cur.id) =>
                 (attempts = <<>> \/ pc \in {"teardown", "idle", "aborted"}))

\* the body of a test timed out; START, both failure files and END were
\* saved from its session, which the driver fixture has now quit
C22_Witness ==
    /\ pc = "teardown"
    /\ cur.uses_driver
    /\ report.call = "TimeoutException"
    /\ attempts = <<"START", "FAILED", "END">>
    /\ ~driver_yielded
    /\ sessions[driver_instance].quits = 1
    /\ \E t1, t2, t3 \in 0..MaxClock :
          {FileName(<<"START", cur.id>>, t1, "png"),
           FailedPng(cur.id, t2), FailedSource(cur.id, t2),
           FileName(<<"END", cur.id>>, t3, "png")} \subseteq files

\* the values of --browser that select Firefox and those that ask for a
\* headless Chrome by name, compared as the fixture compares them
FirefoxSpellings == {n \in BrowserNames : Lower(n) = firefox}
HeadlessChromeSpellings == {n \in BrowserNames : Lower(n) = headless_chrome}

\* --browser defaults to chrome and --headless to false
OptionDefaults ==
    \A args \in CommandLines :
        /\ ~args.browser_given => getoption_browser(args) = chrome
        /\ args.browser_given => getoption_browser(args) = args.browser
        /\ getoption_headless(args) = args.headless_flag

\* C23: --browser defaults to chrome and --headless to false.  Every session
\* the fixture launches is a Firefox session when --browser is firefox and
\* a Chrome session when it is chrome or headless-chrome, in any letter
\* case, and is headless exactly when --headless is given or --browser is
\* headless-chrome.  A session that is handed to a test (and every session
\* a test body used) has the implicit wait of 10 and the maximized window,
\* whatever the options.
C23_OptionsSelectSession ==
    /\ OptionDefaults
    /\ \A d \in DOMAIN sessions :
          /\ browser_name \in SupportedSpellings
          /\ sessions[d].browser =
                IF browser_name \in FirefoxSpellings THEN "Firefox"
                ELSE "Chrome"
          /\ sessions[d].headless <=>
                (headless_mode \/ browser_name \in HeadlessChromeSpellings)
          /\ (driver_yielded /\ driver_instance = d) \/ sessions[d].users # {}
                => /\ sessions[d].implicit_wait = ImplicitWait
                   /\ sessions[d].window = "maximized"
    /\ (cur.uses_driver /\ pc \in {"start_shot", "call", "makereport"}) =>
          (driver_yielded /\ driver_instance \in DOMAIN sessions)

\* a test body has used a headless Chrome session that --browser
\* headless-chrome selected without --headless
C23_Witness ==
    /\ browser_name = headless_chrome
    /\ ~headless_mode
    /\ pc = "makereport"
    /\ cur.uses_driver
    /\ sessions[driver_instance].users = {cur.id}
    /\ sessions[driver_instance].browser = "Chrome"
    /\ sessions[driver_instance].headless
    /\ sessions[driver_instance].implicit_wait = ImplicitWait
    /\ sessions[driver_instance].window = "maximized"

=============================================================================
